---- MODULE Spec2Model ----
(***************************************************************************)
(* Model of the pump-station simulator (physics_sim.py), its schedule      *)
(* objective and driver (optimize.py) and their configuration (config.py,  *)
(* forecast_models.py).                                                    *)
(*                                                                         *)
(* Numbers.  The pump curve (get_pump_flow) is computed in rational        *)
(* arithmetic: a rational is a pair <<n, d>> with d > 0 in lowest terms,   *)
(* exact as long as its terms fit a machine integer and rounded beyond.    *)
(* Heads are rationals in metres, flows rationals in m3/s.                 *)
(* The simulator (simulate_hour) adds the pumps' flows as fixed-point      *)
(* numbers: a flow is a whole number of 1/FlowOne m3/s (rounded down), a   *)
(* power a whole number of 1/PowerOne kW.  The square root of the demand   *)
(* curve is the integer square root on that grid.                          *)
(***************************************************************************)
EXTENDS Integers, Sequences, FiniteSets, TLC

(* ------------------------------------------------------------------ *)
(* Rational arithmetic (the float operators * / + - <= of the source) *)
(* ------------------------------------------------------------------ *)
Abs(x) == IF x < 0 THEN -x ELSE x

RECURSIVE GCD(_, _)
GCD(a, b) ==
  IF b = 0 THEN a
  ELSE LET r == a % b IN IF r = 0 THEN b ELSE GCD(r, b % r)

Rat(n, d) ==
  LET g == GCD(Abs(n), Abs(d))
      s == IF d < 0 THEN -1 ELSE 1
  IN  IF n = 0 THEN <<0, 1>> ELSE <<s * (n \div g), s * (d \div g)>>

Zero == <<0, 1>>
One == <<1, 1>>
RInt(k) == <<k, 1>>

\* A float keeps 53 significant bits; the model keeps a rational exactly as
\* long as its terms fit a machine integer and otherwise rounds the operand
\* with the larger denominator (Half) before the operation.
IntMax == 2147483647
Fits(x, y) == y = 0 \/ Abs(x) <= IntMax \div Abs(y)
FitsSum(x, y) == y = 0 \/ Abs(x) <= (IntMax \div 2) \div Abs(y)
Half(r) == Rat(r[1] \div 2, r[2] \div 2)

RECURSIVE RMul(_, _)
RMul(a, b) ==
  IF a[1] = 0 \/ b[1] = 0 THEN Zero
  ELSE LET g1 == GCD(Abs(a[1]), b[2])
           g2 == GCD(Abs(b[1]), a[2])
           x == a[1] \div g1
           y == b[1] \div g2
           u == a[2] \div g2
           v == b[2] \div g1
       IN  IF Fits(x, y) /\ Fits(u, v) THEN <<x * y, u * v>>
           ELSE IF a[2] >= b[2] THEN RMul(Half(a), b)
           ELSE RMul(a, Half(b))

RDiv(a, b) ==
  IF b[1] < 0 THEN RMul(a, <<-b[2], -b[1]>>) ELSE RMul(a, <<b[2], b[1]>>)

RECURSIVE RAdd(_, _)
RAdd(a, b) ==
  LET g == GCD(a[2], b[2])
      u == a[2] \div g
      v == b[2] \div g
  IN  IF FitsSum(a[1], v) /\ FitsSum(b[1], u) /\ Fits(u, b[2])
      THEN Rat(a[1] * v + b[1] * u, u * b[2])
      ELSE IF a[2] >= b[2] THEN RAdd(Half(a), b)
      ELSE RAdd(a, Half(b))

RNeg(a) == <<-a[1], a[2]>>
RSub(a, b) == RAdd(a, RNeg(b))

RECURSIVE RLe(_, _)
RLe(a, b) ==
  LET g == GCD(a[2], b[2])
      u == a[2] \div g
      v == b[2] \div g
  IN  IF Fits(a[1], v) /\ Fits(b[1], u) THEN a[1] * v <= b[1] * u
      ELSE IF a[2] >= b[2] THEN RLe(Half(a), b)
      ELSE RLe(a, Half(b))

RLt(a, b) == ~RLe(b, a)

Reverse(s) == [i \in 1..Len(s) |-> s[Len(s) + 1 - i]]

(* ------------------------------------------------------------------ *)
(* config.py: pump base curves at 60 Hz                                *)
(* ------------------------------------------------------------------ *)
\* flow samples as written in config.py: pump 1 in m3/day (each entry is
\* divided by 24 in the source), pumps 2-4 in m3/hr
Pump1FlowPerDay == <<0, 35775, 70590, 84360, 100433, 114599, 125432, 126821>>
Pump1HeadCm == <<1996, 1727, 1506, 1309, 1106, 917, 720, 482>>
Pump2FlowPerHour == <<0, 50, 100, 150, 200, 250, 300, 350>>
Pump2HeadM == <<71, 69, 66, 61, 53, 41, 26, 11>>
SmallPumpFlowPerHour == <<0, 25, 50, 75, 100, 125>>
SmallPumpHeadM == <<50, 48, 42, 35, 25, 15>>

SecondsPerHour == 3600
HoursPerDay == 24
RatedFreq == 60

\* PUMP_BASE_CURVES after the m3/hr -> m3/s conversion loop (flow /= 3600.0)
PUMP_BASE_CURVES ==
  <<[freq |-> RatedFreq,
     flow |-> [i \in 1..8 |-> Rat(Pump1FlowPerDay[i], HoursPerDay * SecondsPerHour)],
     head |-> [i \in 1..8 |-> Rat(Pump1HeadCm[i], 100)]],
    [freq |-> RatedFreq,
     flow |-> [i \in 1..8 |-> Rat(Pump2FlowPerHour[i], SecondsPerHour)],
     head |-> [i \in 1..8 |-> RInt(Pump2HeadM[i])]],
    [freq |-> RatedFreq,
     flow |-> [i \in 1..6 |-> Rat(SmallPumpFlowPerHour[i], SecondsPerHour)],
     head |-> [i \in 1..6 |-> RInt(SmallPumpHeadM[i])]],
    [freq |-> RatedFreq,
     flow |-> [i \in 1..6 |-> Rat(SmallPumpFlowPerHour[i], SecondsPerHour)],
     head |-> [i \in 1..6 |-> RInt(SmallPumpHeadM[i])]]>>

NumPumps == 4
Pumps == 1..NumPumps

(* ------------------------------------------------------------------ *)
(* physics_sim.py: get_pump_flow                                       *)
(* ------------------------------------------------------------------ *)
\* the keys f'pump{pump_id}_dH' and f'pump{pump_id}_dQ'
dHKey == <<"pump1_dH", "pump2_dH", "pump3_dH", "pump4_dH">>
dQKey == <<"pump1_dQ", "pump2_dQ", "pump3_dQ", "pump4_dQ">>

\* a call's outcome: a value, or the exception it raises
Ok(v) == [exc |-> "none", val |-> v]
Raise(e) == [exc |-> e, val |-> Zero]

\* np.interp(x, xp, fp) for increasing xp
interp(x, xp, fp) ==
  LET n == Len(xp)
  IN  IF RLe(x, xp[1]) THEN fp[1]
      ELSE IF RLe(xp[n], x) THEN fp[n]
      ELSE LET j == CHOOSE k \in 1..(n - 1) : RLe(xp[k], x) /\ RLt(x, xp[k + 1])
               slope == RDiv(RSub(fp[j + 1], fp[j]), RSub(xp[j + 1], xp[j]))
           IN  RAdd(RMul(slope, RSub(x, xp[j])), fp[j])

\* steps 2 and 3: degrade the base curve, then scale it by the affinity laws
new_Q_curve(pump_id, frequency, d_Q) ==
  LET curve == PUMP_BASE_CURVES[pump_id]
      ratio == Rat(frequency, curve.freq)
  IN  [i \in 1..Len(curve.flow) |-> RMul(RMul(curve.flow[i], d_Q), ratio)]

\* variant: the head scaled by the frequency ratio, not by its square
new_H_curve_linear(pump_id, frequency, d_H) ==
  LET curve == PUMP_BASE_CURVES[pump_id]
      ratio == Rat(frequency, curve.freq)
  IN  [i \in 1..Len(curve.head) |-> RMul(RMul(curve.head[i], d_H), ratio)]

new_H_curve(pump_id, frequency, d_H) ==
  LET curve == PUMP_BASE_CURVES[pump_id]
      ratio == Rat(frequency, curve.freq)
      ratio_sq == RMul(ratio, ratio)
  IN  [i \in 1..Len(curve.head) |-> RMul(RMul(curve.head[i], d_H), ratio_sq)]

\* variant: the flow samples not reordered to match the increasing heads
lookup_flow_unreversed(head, H_curve, Q_curve) ==
  LET max_head == H_curve[1]
      min_head == H_curve[Len(H_curve)]
  IN  IF RLe(max_head, head) THEN Zero
      ELSE IF RLe(head, min_head) THEN Q_curve[Len(Q_curve)]
      ELSE interp(head, Reverse(H_curve), Q_curve)

\* step 4: clamp at the two ends of the scaled curve, interpolate between
lookup_flow(head, H_curve, Q_curve) ==
  LET max_head == H_curve[1]
      min_head == H_curve[Len(H_curve)]
  IN  IF RLe(max_head, head) THEN Zero
      ELSE IF RLe(head, min_head) THEN Q_curve[Len(Q_curve)]
      ELSE interp(head, Reverse(H_curve), Reverse(Q_curve))

get_pump_flow(pump_id, frequency, head, degradation_factors) ==
  IF frequency <= 0 THEN Ok(Zero)
  ELSE IF dHKey[pump_id] \notin DOMAIN degradation_factors THEN Raise("KeyError")
  ELSE IF dQKey[pump_id] \notin DOMAIN degradation_factors THEN Raise("KeyError")
  ELSE LET d_H == degradation_factors[dHKey[pump_id]]
           d_Q == degradation_factors[dQKey[pump_id]]
       IN  Ok(lookup_flow(head,
                          new_H_curve(pump_id, frequency, d_H),
                          new_Q_curve(pump_id, frequency, d_Q)))

(* ------------------------------------------------------------------ *)
(* Fixed-point numbers of the simulator                                *)
(* ------------------------------------------------------------------ *)
FlowOne == 8000
PowerOne == 8

\* <<q, r>> with a * b = q * c + r and 0 <= r < c, for a, b >= 0 and
\* 0 < c < 2^27, without forming a * b (b is taken three bits at a time)
RECURSIVE MulDivMod(_, _, _)
MulDivMod(a, b, c) ==
  IF b = 0 THEN <<0, 0>>
  ELSE LET h == MulDivMod(a, b \div 8, c)
           r3 == 8 * h[2] + (b % 8) * (a % c)
       IN  <<8 * h[1] + (b % 8) * (a \div c) + (r3 \div c), r3 % c>>

MulDiv(a, b, c) == MulDivMod(a, b, c)[1]

\* a rational with numerator and denominator halved until the denominator is
\* below 2^27 (the precision a float keeps is far coarser than what is dropped)
RECURSIVE shrink(_)
shrink(r) == IF r[2] < 134217728 THEN r ELSE shrink(<<r[1] \div 2, r[2] \div 2>>)

\* a non-negative rational flow (m3/s) as a fixed-point flow, rounded down
ToFix(r) == LET t == shrink(r) IN MulDiv(t[1], FlowOne, t[2])

\* the largest k in lo..(hi - 1) with k * k <= x, given lo * lo <= x < hi * hi
RECURSIVE isqrt_search(_, _, _)
isqrt_search(x, lo, hi) ==
  IF hi - lo <= 1 THEN lo
  ELSE LET mid == (lo + hi) \div 2
           up == mid * mid <= x
           l1 == IF up THEN mid ELSE lo
           h1 == IF up THEN hi ELSE mid
           m1 == (l1 + h1) \div 2
       IN  IF h1 - l1 <= 1 THEN l1
           ELSE IF m1 * m1 <= x THEN isqrt_search(x, m1, h1)
           ELSE isqrt_search(x, l1, m1)

ISqrt(x) == isqrt_search(x, 0, 32768)

(* ------------------------------------------------------------------ *)
(* physics_sim.py: get_pump_power, simulate_hour                       *)
(* ------------------------------------------------------------------ *)
\* SYSTEM_K_VALUE = 28.7
SYSTEM_K_VALUE == Rat(287, 10)

\* (9.81 * 1000) / (0.75 * 1000) kW per (m3/s * m), in power units per flow unit
PowerFactor == Rat(981 * 1000 * PowerOne, 75 * 1000 * FlowOne)

\* flow: fixed-point flow; head: rational metres, head >= 0
get_pump_power(pump_id, frequency, flow, head) ==
  IF flow <= 0 \/ frequency <= 0 THEN 0
  ELSE MulDiv(flow * head[1], PowerFactor[1], PowerFactor[2] * head[2])

\* the demand curve of equations_to_solve: sqrt((H - static_head) / k), or 0
system_flow(H, static_head) ==
  IF RLt(H, static_head) THEN 0
  ELSE LET d == RSub(H, static_head)
       IN  ISqrt(MulDiv(d[1], FlowOne * FlowOne * SYSTEM_K_VALUE[2],
                        d[2] * SYSTEM_K_VALUE[1]))

\* one pass of the loop "for i in range(4)": pump_flow += q, rounded to the grid
add_flow(q, rest) ==
  IF q.exc # "none" THEN Raise(q.exc)
  ELSE IF rest.exc # "none" THEN rest
  ELSE Ok(ToFix(q.val) + rest.val)

\* the loop "for i in range(4)" of equations_to_solve from pump i on: the sum
\* of the pumps' flows, or the first exception raised
RECURSIVE pump_flow_from(_, _, _, _)
pump_flow_from(i, H, frequencies, degradation_factors) ==
  IF i > NumPumps THEN Ok(0)
  ELSE IF i > Len(frequencies) THEN Raise("IndexError")
  ELSE add_flow(get_pump_flow(i, frequencies[i], H, degradation_factors),
                pump_flow_from(i + 1, H, frequencies, degradation_factors))

\* return pump_flow - system_flow
residual(pump_flow, demand) ==
  IF pump_flow.exc # "none" THEN pump_flow ELSE Ok(pump_flow.val - demand)

\* supply - demand at head H (a fixed-point flow), or the exception raised
equations_to_solve(H, frequencies, static_head, degradation_factors) ==
  residual(pump_flow_from(1, H, frequencies, degradation_factors),
           system_flow(H, static_head))

\* The root fsolve converges to.  supply - demand does not increase with the
\* head, so the root is found by bisection on heads of k / HeadOne metres:
\* the largest such head below RootMaxM at which supply >= demand.
HeadOne == 4096
RootMaxM == 128

\* supply >= demand at the head k / HeadOne
supply_meets(k, frequencies, static_head, degradation_factors) ==
  equations_to_solve(Rat(k, HeadOne), frequencies, static_head,
                     degradation_factors).val >= 0

\* two halvings of lo..hi at once: q2 is its middle, q1 and q3 the middles
\* of its halves
RECURSIVE root_search(_, _, _, _, _)
root_halve(lo, q1, q2, q3, hi, frequencies, static_head, degradation_factors) ==
  IF supply_meets(q2, frequencies, static_head, degradation_factors)
  THEN IF q3 > q2 /\ supply_meets(q3, frequencies, static_head, degradation_factors)
       THEN root_search(q3, hi, frequencies, static_head, degradation_factors)
       ELSE root_search(q2, q3, frequencies, static_head, degradation_factors)
  ELSE IF q1 > lo /\ supply_meets(q1, frequencies, static_head, degradation_factors)
       THEN root_search(q1, q2, frequencies, static_head, degradation_factors)
       ELSE root_search(lo, q1, frequencies, static_head, degradation_factors)

root_search(lo, hi, frequencies, static_head, degradation_factors) ==
  IF hi - lo <= 1 THEN lo
  ELSE root_halve(lo, (lo + (lo + hi) \div 2) \div 2, (lo + hi) \div 2,
                  ((lo + hi) \div 2 + hi) \div 2, hi,
                  frequencies, static_head, degradation_factors)

Root(frequencies, static_head, degradation_factors) ==
  Rat(root_search(0, RootMaxM * HeadOne, frequencies, static_head, degradation_factors),
      HeadOne)

\* heads fsolve may hand back when it does not converge (its last iterate)
MaxStrayIdx == 3
StrayHeadsM == <<4, 30, 100, 12, 60, 0, 20, 8>>
StrayHeads == {RInt(StrayHeadsM[i]) : i \in 1..MaxStrayIdx}

\* fsolve(equations_to_solve, [static_head + 5.0]): what the call can do.
\* It raises what the function raises at the initial guess; otherwise it
\* returns a head and never raises: the root (ier = 1), or, not converging,
\* its last iterate with only a RuntimeWarning (ier = 5).
fsolve_first(frequencies, static_head, degradation_factors) ==
  equations_to_solve(RAdd(static_head, RInt(5)), frequencies, static_head,
                     degradation_factors)

fsolve_raised(frequencies, static_head, degradation_factors) ==
  LET first == fsolve_first(frequencies, static_head, degradation_factors)
  IN  IF first.exc # "none" THEN {[exc |-> first.exc, x |-> Zero, ier |-> 0]} ELSE {}

fsolve_converged(frequencies, static_head, degradation_factors) ==
  IF fsolve_first(frequencies, static_head, degradation_factors).exc # "none" THEN {}
  ELSE {[exc |-> "none", ier |-> 1,
         x |-> Root(frequencies, static_head, degradation_factors)]}

fsolve_stray(frequencies, static_head, degradation_factors) ==
  IF fsolve_first(frequencies, static_head, degradation_factors).exc # "none" THEN {}
  ELSE {[exc |-> "none", ier |-> 5, x |-> H] : H \in StrayHeads}

fsolve(frequencies, static_head, degradation_factors) ==
  fsolve_raised(frequencies, static_head, degradation_factors)
    \cup fsolve_converged(frequencies, static_head, degradation_factors)
    \cup fsolve_stray(frequencies, static_head, degradation_factors)

\* one pass of the loop of step 4 for a running pump's flow q_op
add_pump_op(pump_id, frequency, q_op, H_op, rest) ==
  Ok(<<get_pump_power(pump_id, frequency, q_op, H_op) + rest[1], q_op + rest[2]>>)

add_pump(pump_id, frequency, q, H_op, rest) ==
  IF q.exc # "none" THEN Raise(q.exc)
  ELSE IF rest.exc # "none" THEN rest
  ELSE add_pump_op(pump_id, frequency, ToFix(q.val), H_op, rest.val)

\* the loop of step 4 from pump i on: <<total_power_op, total_flow_op>>, or
\* the exception raised
RECURSIVE totals_from(_, _, _, _)
totals_from(i, H_op, frequencies, degradation_factors) ==
  IF i > NumPumps THEN Ok(<<0, 0>>)
  ELSE IF i > Len(frequencies) THEN Raise("IndexError")
  ELSE add_pump(i, frequencies[i],
                get_pump_flow(i, frequencies[i], H_op, degradation_factors),
                H_op, totals_from(i + 1, H_op, frequencies, degradation_factors))

\* the return of line 129, or the exception that leaves simulate_hour
return_totals(t) ==
  IF t.exc # "none" THEN [exit |-> "raised", ret |-> <<0, 0>>]
  ELSE [exit |-> "normal", ret |-> t.val]

\* simulate_hour once fsolve has done s (an element of fsolve(...)):
\* exit "except" is the return of line 112, "normal" the return of line 129,
\* "raised" an exception leaving simulate_hour; ret is <<power, flow>>
simulate_hour(frequencies, static_head, degradation_factors, s) ==
  IF s.exc # "none" THEN [exit |-> "except", ret |-> <<0, 0>>]
  ELSE return_totals(totals_from(1, s.x, frequencies, degradation_factors))

(* ------------------------------------------------------------------ *)
(* State                                                               *)
(* ------------------------------------------------------------------ *)
VARIABLES
  pf_pc,     \* pump-curve evaluation: "args", "called", "scaled"
  pf_args,   \* [pump_id, frequency, head, d_H, d_Q] of the evaluation
  pf_ret,    \* get_pump_flow(pump_id, frequency, head, ...)
  pf_c,      \* the frequency factor of the second evaluation
  pf_ret2,   \* get_pump_flow(pump_id, c*frequency, c*c*head, ...)
  sim_pc,    \* a caller of simulate_hour: "idle", "called", "returned"
  sim_args,  \* [frequencies, static_head, degradation_factors] of the call
  sim_fs,    \* what fsolve did in the call: [exc, ier, x]; x is H_op
  sim_out,   \* [exit, ret]: the return statement taken and <<power, flow>>
  failure_results,  \* the results handed back by the except branch so far
  prev,      \* the caller's previous call: [static_head, fs, out]
  opt_pc,    \* optimize.py's __main__: "start", "loaded", "forecast",
             \* "searching", "done", "exited" (sys.exit), "crashed" (traceback)
  calib_file,          \* the file at CALIBRATION_FILE_PATH: [state, factors]
  start_method,        \* how multiprocessing starts a worker: "fork", "spawn"
  CALIBRATED_FACTORS,  \* the module globals of the main process; None is {}
  HOURLY_STATIC_HEAD,
  TARGET_VOLUME,
  worker,    \* the same three module globals in a worker process
  evals,     \* objective evaluations finished in this run
  ev         \* the objective evaluation under way (see NoEval)

pfvars == <<pf_pc, pf_args, pf_ret, pf_c, pf_ret2>>
simvars == <<sim_pc, sim_args, sim_fs, sim_out, failure_results, prev>>
optvars == <<opt_pc, calib_file, start_method, CALIBRATED_FACTORS, HOURLY_STATIC_HEAD,
             TARGET_VOLUME, worker, evals, ev>>
vars == <<pfvars, simvars, optvars>>

NoRet == Raise("pending")
NoArgs == [frequencies |-> <<>>, static_head |-> Zero, degradation_factors |-> <<>>]
NoFs == [exc |-> "pending", ier |-> 0, x |-> Zero]
NoOut == [exit |-> "pending", ret |-> <<0, 0>>]
NoPrev == [static_head |-> RInt(-1), fs |-> NoFs, out |-> NoOut]

\* optimize.py lines 15-17: the module globals as the import leaves them
ModuleDefaults ==
  [CALIBRATED_FACTORS |-> {}, HOURLY_STATIC_HEAD |-> <<>>, TARGET_VOLUME |-> 0]

NoFile == [state |-> "missing", factors |-> {}]

\* no objective evaluation under way.  log is the <<power_kw, flow_m3s>> of
\* the hours simulated so far, totals the <<total_cost, total_volume_m3>>
\* after each of them.
NoEval ==
  [pc |-> "idle", proc |-> "none", schedule |-> <<>>, stray_hours |-> 0, hour |-> 0,
   total_cost |-> 0, total_volume_m3 |-> 0, log |-> <<>>, totals |-> <<>>, ret |-> 0]

\* no pump-curve evaluation under way
PumpIdle ==
  /\ pf_pc = "idle"
  /\ pf_args = [pump_id |-> 1, frequency |-> 0, head |-> Zero, d_H |-> One, d_Q |-> One]
  /\ pf_ret = NoRet
  /\ pf_c = 1
  /\ pf_ret2 = NoRet

\* no call of simulate_hour made yet
SimIdle ==
  /\ sim_pc = "idle"
  /\ sim_args = NoArgs
  /\ sim_fs = NoFs
  /\ sim_out = NoOut
  /\ failure_results = {}
  /\ prev = NoPrev

\* optimize.py not run
OptIdle ==
  /\ opt_pc = "off"
  /\ calib_file = NoFile
  /\ start_method = "fork"
  /\ CALIBRATED_FACTORS = ModuleDefaults.CALIBRATED_FACTORS
  /\ HOURLY_STATIC_HEAD = ModuleDefaults.HOURLY_STATIC_HEAD
  /\ TARGET_VOLUME = ModuleDefaults.TARGET_VOLUME
  /\ worker = ModuleDefaults
  /\ evals = 0
  /\ ev = NoEval

(* ------------------------------------------------------------------ *)
(* Inputs of the pump-curve evaluations                                *)
(* ------------------------------------------------------------------ *)
MaxHeadM == 75
MaxFactor == 3

\* degradation factors: the calibration bounds 0.8 and 1.0
DegValues == {Rat(4, 5), One}
PumpFreqs == {0, 10, 20, 30, 60}
SampleHeads ==
  UNION {{PUMP_BASE_CURVES[p].head[i] : i \in 1..Len(PUMP_BASE_CURVES[p].head)} : p \in Pumps}
PumpHeads ==
  {RInt(m) : m \in (-1)..MaxHeadM} \cup SampleHeads
    \cup {RMul(h, Rat(1, 4)) : h \in SampleHeads}

deg_of(pump_id, d_H, d_Q) == (dHKey[pump_id] :> d_H) @@ (dQKey[pump_id] :> d_Q)

PumpInit ==
  /\ SimIdle /\ OptIdle
  /\ pf_pc = "args"
  /\ pf_args \in [pump_id : Pumps, frequency : PumpFreqs, head : PumpHeads,
                  d_H : DegValues, d_Q : DegValues]
  /\ pf_ret = NoRet
  /\ pf_c = 1
  /\ pf_ret2 = NoRet

\* one evaluation of get_pump_flow
PumpCall ==
  /\ pf_pc = "args"
  /\ pf_ret' = get_pump_flow(pf_args.pump_id, pf_args.frequency, pf_args.head,
                             deg_of(pf_args.pump_id, pf_args.d_H, pf_args.d_Q))
  /\ pf_pc' = "called"
  /\ UNCHANGED <<pf_args, pf_c, pf_ret2, simvars, optvars>>

\* a second evaluation at c times the frequency and c*c times the head
PumpCallScaled ==
  /\ pf_pc = "called"
  /\ \E c \in 2..MaxFactor :
       /\ pf_c' = c
       /\ pf_ret2' = get_pump_flow(pf_args.pump_id, c * pf_args.frequency,
                                   RMul(RInt(c * c), pf_args.head),
                                   deg_of(pf_args.pump_id, pf_args.d_H, pf_args.d_Q))
  /\ pf_pc' = "scaled"
  /\ UNCHANGED <<pf_args, pf_ret, simvars, optvars>>

PumpNext == PumpCall \/ PumpCallScaled

SpecPump == PumpInit /\ [][PumpNext]_vars

(* ------------------------------------------------------------------ *)
(* Calls of simulate_hour                                              *)
(* ------------------------------------------------------------------ *)
\* frequency vectors of one entry too few up to MaxVecLen entries
MaxVecLen == 5
VecLens == (NumPumps - 1)..MaxVecLen
MaxStaticIdx == 3

AllKeys == {dHKey[p] : p \in Pumps} \cup {dQKey[p] : p \in Pumps}
DegFull(v) == [k \in AllKeys |-> v]
\* a factor set fitted for three pumps: no entry for pump 4
DegNoPump4 == [k \in AllKeys \ {dHKey[4], dQKey[4]} |-> One]
DegSets == {DegFull(One), DegFull(Rat(4, 5)), DegNoPump4}

FreqVectors ==
  UNION {[1..n -> {0, 60}] : n \in VecLens}
    \cup {<<30, 30, 30, 30>>, <<30, 60, 0, 0>>, <<30, 0, 30, 0>>, <<0, 0, 30, 30>>}

StaticHeadsM == <<5, 25, 80, 15, 50, 10>>
StaticHeads == {RInt(StaticHeadsM[i]) : i \in 1..MaxStaticIdx}

SimArgs ==
  [frequencies : FreqVectors, static_head : StaticHeads, degradation_factors : DegSets]

\* a caller calls simulate_hour(frequencies, static_head, degradation_factors)
SimCall ==
  /\ sim_pc = "idle"
  /\ sim_args' \in SimArgs
  /\ sim_pc' = "called"
  /\ UNCHANGED <<sim_fs, sim_out, failure_results, prev, pfvars, optvars>>

\* the caller receives out, the result of the call in which fsolve did s
SimReturn(s, out) ==
  /\ sim_fs' = s
  /\ sim_out' = out
  /\ sim_pc' = "returned"
  /\ failure_results' = IF out.exit = "except"
                        THEN failure_results \cup {out.ret}
                        ELSE failure_results
  /\ UNCHANGED <<sim_args, prev, pfvars, optvars>>

\* simulate_hour runs to its return with fsolve doing s
SimFinish(s) ==
  SimReturn(s, simulate_hour(sim_args.frequencies, sim_args.static_head,
                             sim_args.degradation_factors, s))

\* equations_to_solve raises inside fsolve: the except branch (lines 109-112)
SimRaise ==
  /\ sim_pc = "called"
  /\ \E s \in fsolve_raised(sim_args.frequencies, sim_args.static_head,
                            sim_args.degradation_factors) : SimFinish(s)

\* fsolve converges: lines 114-129 at the root
SimConverged ==
  /\ sim_pc = "called"
  /\ \E s \in fsolve_converged(sim_args.frequencies, sim_args.static_head,
                               sim_args.degradation_factors) : SimFinish(s)

\* fsolve does not converge and returns its last iterate: lines 114-129 there
SimStray ==
  /\ sim_pc = "called"
  /\ \E s \in fsolve_stray(sim_args.frequencies, sim_args.static_head,
                           sim_args.degradation_factors) : SimFinish(s)

\* the caller takes the result and goes on to its next call
SimNextCall ==
  /\ sim_pc = "returned"
  /\ sim_pc' = "idle"
  /\ sim_args' = NoArgs
  /\ sim_fs' = NoFs
  /\ sim_out' = NoOut
  /\ UNCHANGED <<failure_results, prev, pfvars, optvars>>

Init == PumpIdle /\ SimIdle /\ OptIdle

Next == SimCall \/ SimRaise \/ SimConverged \/ SimStray \/ SimNextCall

Spec == Init /\ [][Next]_vars

(* ------------------------------------------------------------------ *)
(* Two calls of simulate_hour that differ in the static head only      *)
(* ------------------------------------------------------------------ *)
MonoArgs == {a \in SimArgs : Len(a.frequencies) = NumPumps}

MonoFirstCall ==
  /\ sim_pc = "idle"
  /\ sim_args' \in MonoArgs
  /\ sim_pc' = "called"
  /\ UNCHANGED <<sim_fs, sim_out, failure_results, prev, pfvars, optvars>>

\* the caller keeps the first result and calls again with a static head
\* that is not lower
MonoSecondCall ==
  /\ sim_pc = "returned"
  /\ prev = NoPrev
  /\ \E s2 \in StaticHeads :
       /\ RLe(sim_args.static_head, s2)
       /\ sim_args' = [sim_args EXCEPT !.static_head = s2]
  /\ prev' = [static_head |-> sim_args.static_head, fs |-> sim_fs, out |-> sim_out]
  /\ sim_pc' = "called"
  /\ sim_fs' = NoFs
  /\ sim_out' = NoOut
  /\ UNCHANGED <<failure_results, pfvars, optvars>>

NextMono ==
  MonoFirstCall \/ SimRaise \/ SimConverged \/ SimStray \/ MonoSecondCall

SpecMono == Init /\ [][NextMono]_vars

(* ------------------------------------------------------------------ *)
(* forecast_models.py, config.get_tou_price                            *)
(* ------------------------------------------------------------------ *)
\* 0.5 * sin(k * 2 * pi / 24) for k = 0..6, in 1/HeadOne m (nearest)
HalfSinQuarter == <<0, 530, 1024, 1448, 1774, 1978, 2048>>

half_sin(hour) ==
  LET k == hour % 12
      v == IF k <= 6 THEN HalfSinQuarter[k + 1] ELSE HalfSinQuarter[13 - k]
  IN  IF hour % 24 < 12 THEN v ELSE -v

\* 25.0 + np.sin(hour * 2 * np.pi / 24) * 0.5
get_predicted_static_head(hour) == Rat(25 * HeadOne + half_sin(hour), HeadOne)

\* 50000.0 m3, as a volume in 1/FlowOne m3
get_target_daily_volume == 50000 * FlowOne

\* the price of a kWh in the hour
get_tou_price(hour) == IF 7 <= hour /\ hour < 22 THEN 5 ELSE 2

(* ------------------------------------------------------------------ *)
(* optimize.py                                                         *)
(* ------------------------------------------------------------------ *)
\* Money is counted in 1/PowerOne of the currency unit, volume in 1/FlowOne
\* m3: "deficit * 1000" is then PenaltyPerUnit money units per volume unit.
PenaltyPerUnit == (1000 * PowerOne) \div FlowOne

\* variant: the power summed without the price of the hour
add_cost_unpriced(total_cost, power_kw, price) == total_cost + power_kw

\* total_cost += power_kw * price
add_cost(total_cost, power_kw, price) == total_cost + power_kw * price

\* total_volume_m3 += flow_m3s * 3600
add_volume(total_volume_m3, flow_m3s) == total_volume_m3 + flow_m3s * SecondsPerHour

\* lines 51-55
total_penalty(total_volume_m3, target) ==
  IF total_volume_m3 < target THEN (target - total_volume_m3) * PenaltyPerUnit ELSE 0

\* the calibration file as the run finds it
CalibFiles ==
  {NoFile, [state |-> "corrupt", factors |-> {}],
   [state |-> "present", factors |-> {DegFull(One)}],
   [state |-> "present", factors |-> {DegNoPump4}]}

\* the module globals of the process an evaluation runs in
MainGlobals ==
  [CALIBRATED_FACTORS |-> CALIBRATED_FACTORS, HOURLY_STATIC_HEAD |-> HOURLY_STATIC_HEAD,
   TARGET_VOLUME |-> TARGET_VOLUME]
GlobalsOf(proc) == IF proc = "worker" THEN worker ELSE MainGlobals

\* CALIBRATED_FACTORS as simulate_hour receives it: with None every lookup
\* of a factor raises, as with a set that has no entries
FactorsOf(g) ==
  IF g.CALIBRATED_FACTORS = {} THEN [k \in {} |-> One]
  ELSE CHOOSE f \in g.CALIBRATED_FACTORS : TRUE

\* schedules: one frequency vector for the hours of the high price and one
\* for the others, each within PUMP_BOUNDS
HourVectors == {<<60, 60, 60, 60>>, <<30, 30, 0, 0>>}
Schedules ==
  {[h \in 1..HoursPerDay |-> IF get_tou_price(h - 1) = get_tou_price(12) THEN a ELSE b] :
     a, b \in HourVectors}

\* fsolve in the hours of one evaluation: it does not converge in the first
\* stray_hours hours (and ends at OptStrayHead) and converges afterwards
MaxStrayHours == 10
StrayHourCounts == {0, 1, MaxStrayHours}
OptStrayHead == RInt(StrayHeadsM[1])
MaxEvals == 2

OptInit ==
  /\ PumpIdle /\ SimIdle
  /\ opt_pc = "start"
  /\ calib_file \in CalibFiles
  /\ start_method \in {"fork", "spawn"}
  /\ CALIBRATED_FACTORS = ModuleDefaults.CALIBRATED_FACTORS
  /\ HOURLY_STATIC_HEAD = ModuleDefaults.HOURLY_STATIC_HEAD
  /\ TARGET_VOLUME = ModuleDefaults.TARGET_VOLUME
  /\ worker = ModuleDefaults
  /\ evals = 0
  /\ ev = NoEval

\* line 98, load_calibration_data: FileNotFoundError ends the program with
\* sys.exit(1); any other error of open or json.load is not caught
OptLoad ==
  /\ opt_pc = "start"
  /\ opt_pc' = CASE calib_file.state = "missing" -> "exited"
                  [] calib_file.state = "corrupt" -> "crashed"
                  [] OTHER -> "loaded"
  /\ CALIBRATED_FACTORS' = IF calib_file.state = "present" THEN calib_file.factors
                           ELSE CALIBRATED_FACTORS
  /\ UNCHANGED <<calib_file, start_method, HOURLY_STATIC_HEAD, TARGET_VOLUME, worker,
                 evals, ev, pfvars, simvars>>

\* lines 103-104
OptForecast ==
  /\ opt_pc = "loaded"
  /\ HOURLY_STATIC_HEAD' = [h \in 1..HoursPerDay |-> get_predicted_static_head(h - 1)]
  /\ TARGET_VOLUME' = get_target_daily_volume
  /\ opt_pc' = "forecast"
  /\ UNCHANGED <<calib_file, start_method, CALIBRATED_FACTORS, worker, evals, ev,
                 pfvars, simvars>>

\* line 108, run_de_optimization: differential_evolution(workers=-1) starts
\* its pool of worker processes.  A forked worker is a copy of the main
\* process; a spawned one imports the module anew, and the import does not
\* run the block under "if __name__ == '__main__'".
OptStartSearch ==
  /\ opt_pc = "forecast"
  /\ worker' = IF start_method = "fork" THEN MainGlobals ELSE ModuleDefaults
  /\ opt_pc' = "searching"
  /\ UNCHANGED <<calib_file, start_method, CALIBRATED_FACTORS, HOURLY_STATIC_HEAD,
                 TARGET_VOLUME, evals, ev, pfvars, simvars>>

\* the search has objective_function evaluated for a candidate: by a worker,
\* and the last time (polishing the best candidate) by the main process
EvalStart ==
  /\ opt_pc = "searching" /\ ev.pc = "idle" /\ evals < MaxEvals
  /\ \E schedule \in Schedules, n \in StrayHourCounts :
       ev' = [NoEval EXCEPT !.pc = "running",
                            !.proc = IF evals + 1 < MaxEvals THEN "worker" ELSE "main",
                            !.schedule = schedule,
                            !.stray_hours = n]
  /\ UNCHANGED <<opt_pc, calib_file, start_method, CALIBRATED_FACTORS,
                 HOURLY_STATIC_HEAD, TARGET_VOLUME, worker, evals, pfvars, simvars>>

\* what fsolve does in an hour of the evaluation
OptFsolve(frequencies, static_head, degradation_factors, stray) ==
  IF stray
  THEN fsolve_raised(frequencies, static_head, degradation_factors)
         \cup {s \in fsolve_stray(frequencies, static_head, degradation_factors) :
                 s.x = OptStrayHead}
  ELSE fsolve_raised(frequencies, static_head, degradation_factors)
         \cup fsolve_converged(frequencies, static_head, degradation_factors)

\* lines 44-48 with the result of simulate_hour
HourDone(e, out, price) ==
  [e EXCEPT !.hour = e.hour + 1,
            !.total_cost = add_cost(e.total_cost, out[1], price),
            !.total_volume_m3 = add_volume(e.total_volume_m3, out[2]),
            !.log = Append(e.log, out),
            !.totals = Append(e.totals, <<add_cost(e.total_cost, out[1], price),
                                          add_volume(e.total_volume_m3, out[2])>>)]

\* lines 33-41
EvalSimulate(g, hour) ==
  \E s \in OptFsolve(ev.schedule[hour + 1], g.HOURLY_STATIC_HEAD[hour + 1], FactorsOf(g),
                      hour < ev.stray_hours) :
    ev' = HourDone(ev, simulate_hour(ev.schedule[hour + 1], g.HOURLY_STATIC_HEAD[hour + 1],
                                     FactorsOf(g), s).ret,
                   get_tou_price(hour))

\* one pass of the loop "for hour in range(24)"; HOURLY_STATIC_HEAD[hour]
\* raises IndexError when the list is shorter
EvalHour ==
  /\ opt_pc = "searching" /\ ev.pc = "running" /\ ev.hour < HoursPerDay
  /\ IF ev.hour >= Len(GlobalsOf(ev.proc).HOURLY_STATIC_HEAD)
     THEN ev' = [ev EXCEPT !.pc = "raised"]
     ELSE EvalSimulate(GlobalsOf(ev.proc), ev.hour)
  /\ UNCHANGED <<opt_pc, calib_file, start_method, CALIBRATED_FACTORS,
                 HOURLY_STATIC_HEAD, TARGET_VOLUME, worker, evals, pfvars, simvars>>

\* lines 51-58
EvalReturn ==
  /\ opt_pc = "searching" /\ ev.pc = "running" /\ ev.hour = HoursPerDay
  /\ ev' = [ev EXCEPT !.pc = "returned",
                      !.ret = ev.total_cost
                                + total_penalty(ev.total_volume_m3,
                                                GlobalsOf(ev.proc).TARGET_VOLUME)]
  /\ UNCHANGED <<opt_pc, calib_file, start_method, CALIBRATED_FACTORS,
                 HOURLY_STATIC_HEAD, TARGET_VOLUME, worker, evals, pfvars, simvars>>

\* the search takes the value
EvalNext ==
  /\ opt_pc = "searching" /\ ev.pc = "returned"
  /\ ev' = NoEval
  /\ evals' = evals + 1
  /\ UNCHANGED <<opt_pc, calib_file, start_method, CALIBRATED_FACTORS,
                 HOURLY_STATIC_HEAD, TARGET_VOLUME, worker, pfvars, simvars>>

\* an exception of objective_function leaves differential_evolution and
\* ends the program
EvalAbort ==
  /\ opt_pc = "searching" /\ ev.pc = "raised"
  /\ opt_pc' = "crashed"
  /\ UNCHANGED <<calib_file, start_method, CALIBRATED_FACTORS, HOURLY_STATIC_HEAD,
                 TARGET_VOLUME, worker, evals, ev, pfvars, simvars>>

\* lines 111-143: the result is printed
OptReport ==
  /\ opt_pc = "searching" /\ ev.pc = "idle" /\ evals = MaxEvals
  /\ opt_pc' = "done"
  /\ UNCHANGED <<calib_file, start_method, CALIBRATED_FACTORS, HOURLY_STATIC_HEAD,
                 TARGET_VOLUME, worker, evals, ev, pfvars, simvars>>

NextOpt ==
  \/ OptLoad \/ OptForecast \/ OptStartSearch
  \/ EvalStart \/ EvalHour \/ EvalReturn \/ EvalNext \/ EvalAbort
  \/ OptReport

SpecOpt == OptInit /\ [][NextOpt]_vars

(* ------------------------------------------------------------------ *)
(* Properties of get_pump_flow                                         *)
(* ------------------------------------------------------------------ *)
\* the scaled curve as the affinity laws state it:
\* Q_i' = Q_i * dQ * (f / f_rated),  H_i' = H_i * dH * (f / f_rated)^2
ScaledQ(p, i, f, d_Q) ==
  LET c == PUMP_BASE_CURVES[p]
  IN  Rat(c.flow[i][1] * d_Q[1] * f, c.flow[i][2] * d_Q[2] * c.freq)
ScaledH(p, i, f, d_H) ==
  LET c == PUMP_BASE_CURVES[p]
  IN  Rat(c.head[i][1] * d_H[1] * f * f, c.head[i][2] * d_H[2] * c.freq * c.freq)
NSamples(p) == Len(PUMP_BASE_CURVES[p].flow)

\* C4: for f > 0 get_pump_flow is 0 at or above the scaled shutoff head, the
\* maximum scaled flow at or below the scaled minimum head, the linear
\* interpolation of flow over head on the scaled curve in between, and always
\* within [0, maximum scaled flow].
C4_ClampingRule ==
  (pf_pc # "args" /\ pf_args.frequency > 0) =>
    LET p == pf_args.pump_id
        f == pf_args.frequency
        h == pf_args.head
        n == NSamples(p)
        Hs(i) == ScaledH(p, i, f, pf_args.d_H)
        Qs(i) == ScaledQ(p, i, f, pf_args.d_Q)
        r == pf_ret.val
    IN  /\ pf_ret.exc = "none"
        /\ RLe(Hs(1), h) => r = Zero
        /\ RLe(h, Hs(n)) => r = Qs(n)
        /\ (RLt(Hs(n), h) /\ RLt(h, Hs(1))) =>
             \E i \in 1..(n - 1) :
               /\ RLe(Hs(i + 1), h) /\ RLe(h, Hs(i))
               /\ RMul(r, RSub(Hs(i), Hs(i + 1)))
                    = RAdd(RMul(Qs(i + 1), RSub(Hs(i), h)),
                           RMul(Qs(i), RSub(h, Hs(i + 1))))
        /\ RLe(Zero, r) /\ RLe(r, Qs(n))

\* an evaluation strictly inside a segment of pump 1's degraded, slowed curve
C4_Witness ==
  /\ pf_pc = "called"
  /\ pf_args.pump_id = 1 /\ pf_args.frequency = 30
  /\ pf_args.d_H = Rat(4, 5) /\ pf_args.d_Q = Rat(4, 5)
  /\ pf_args.head = RInt(3)
  /\ RLt(Zero, pf_ret.val)
  /\ RLt(pf_ret.val, ScaledQ(1, 8, 30, Rat(4, 5)))

\* C8: get_pump_flow(c*f, c*c*h) = c * get_pump_flow(f, h) for f > 0, and at the
\* rated frequency with degradation (1,1) the head of a base sample gives that
\* sample's flow.
C8_AffinityScaling ==
  /\ (pf_pc = "scaled" /\ pf_args.frequency > 0) =>
       /\ pf_ret2.exc = "none"
       /\ pf_ret2.val = RMul(RInt(pf_c), pf_ret.val)
  /\ (pf_pc # "args" /\ pf_args.frequency = PUMP_BASE_CURVES[pf_args.pump_id].freq
        /\ pf_args.d_H = One /\ pf_args.d_Q = One) =>
       \A i \in 1..NSamples(pf_args.pump_id) :
         pf_args.head = PUMP_BASE_CURVES[pf_args.pump_id].head[i]
           => pf_ret.val = PUMP_BASE_CURVES[pf_args.pump_id].flow[i]

\* the frequency doubled from 30 Hz to the rated 60 Hz, inside the curve
C8_Witness ==
  /\ pf_pc = "scaled" /\ pf_c = 2
  /\ pf_args.frequency = 30 /\ pf_args.pump_id = 2
  /\ pf_args.head = RInt(10)
  /\ RLt(Zero, pf_ret.val)
  /\ RLt(pf_ret.val, ScaledQ(2, 8, 30, pf_args.d_Q))
  /\ RLt(pf_ret.val, pf_ret2.val)

(* ------------------------------------------------------------------ *)
(* Properties of simulate_hour                                         *)
(* ------------------------------------------------------------------ *)
\* the tolerance epsilon, in fixed-point flow units
EpsilonFlow == 8

SimReturned == sim_pc = "returned"

\* one frequency per configured pump; a dH and a dQ entry for every pump
ValidShape == Len(sim_args.frequencies) = NumPumps
ValidFactors == AllKeys \subseteq DOMAIN sim_args.degradation_factors
ConfigError == ~ValidShape \/ ~ValidFactors

AllOff == ValidShape /\ \A i \in Pumps : sim_args.frequencies[i] = 0

\* the static head is above the scaled shutoff head of every pump
InfeasibleLift ==
  /\ ValidShape /\ ValidFactors
  /\ \A p \in Pumps :
       RLt(ScaledH(p, 1, sim_args.frequencies[p],
                   sim_args.degradation_factors[dHKey[p]]),
           sim_args.static_head)

\* supply(H*) - demand(H*) at the head the call's totals were computed at
ResidualAtHop ==
  equations_to_solve(sim_fs.x, sim_args.frequencies, sim_args.static_head,
                     sim_args.degradation_factors).val

\* C1: whenever simulate_hour hands back a result that is not the failure
\* result of its except branch, the head H* its totals were computed at
\* satisfies |supply(H*) - demand(H*)| < epsilon, whatever head the solver
\* returned.
C1_Equilibrium ==
  (SimReturned /\ sim_out.exit = "normal") => Abs(ResidualAtHop) < EpsilonFlow

\* C2: no exception leaves simulate_hour, and whenever the solver did not
\* converge the call returns the degenerate zero result through its failure
\* branch, never totals computed at the solver's last iterate.
C2_SolverFailurePolicy ==
  SimReturned =>
    /\ sim_out.exit # "raised"
    /\ (sim_fs.exc = "none" /\ sim_fs.ier # 1) =>
         (sim_out.exit = "except" /\ sim_out.ret = <<0, 0>>)

\* C3: a call with a frequency vector of the wrong length or with a missing
\* dH/dQ entry is rejected with an error of its own: it is neither answered
\* with the zero result of the failure branch nor evaluated as if valid.
C3_ConfigErrorRejected ==
  (SimReturned /\ ConfigError) => sim_out.exit = "raised"

\* C5: a call with every frequency 0 returns flow 0 and power 0 as a
\* success, and what it returns is not a value a failed call hands back.
C5_AllOffSuccess ==
  (SimReturned /\ AllOff) =>
    /\ sim_out.ret = <<0, 0>>
    /\ sim_out.exit = "normal"
    /\ sim_out.ret \notin failure_results

\* C6: a call whose static head is above every pump's scaled shutoff head
\* returns the degenerate zero result through the failure branch.
C6_InfeasibleLift ==
  (SimReturned /\ InfeasibleLift) =>
    (sim_out.exit = "except" /\ sim_out.ret = <<0, 0>>)

\* C7: of two calls with the same frequencies and degradation factors and
\* static heads s1 <= s2 that both return a result through the normal
\* return, the one for s2 does not return the greater total flow.
C7_MonotoneInStaticHead ==
  (SimReturned /\ prev # NoPrev /\ prev.out.exit = "normal" /\ sim_out.exit = "normal")
    => sim_out.ret[2] <= prev.out.ret[2]

(* ------------------------------------------------------------------ *)
(* Properties of optimize.py                                           *)
(* ------------------------------------------------------------------ *)
\* what a run that loaded its file and its forecasts holds
LoadedSnapshot ==
  [CALIBRATED_FACTORS |-> calib_file.factors,
   HOURLY_STATIC_HEAD |-> [h \in 1..HoursPerDay |-> get_predicted_static_head(h - 1)],
   TARGET_VOLUME |-> get_target_daily_volume]

\* C9: the search runs only after the file was loaded, with the main
\* process holding the loaded factors, the 24 forecast heads and the target
\* unchanged, and every evaluation of the objective, in a worker or in the
\* main process, reads exactly these.
C9_LoadBeforeRun ==
  /\ opt_pc \in {"searching", "done"} =>
       (calib_file.state = "present" /\ MainGlobals = LoadedSnapshot)
  /\ ev.pc # "idle" => GlobalsOf(ev.proc) = LoadedSnapshot

\* the sums the claim states, over the hours simulated so far
RECURSIVE EnergyCost(_)
EnergyCost(log) ==
  IF log = <<>> THEN 0
  ELSE EnergyCost(SubSeq(log, 1, Len(log) - 1))
         + log[Len(log)][1] * get_tou_price(Len(log) - 1)

RECURSIVE PumpedVolume(_)
PumpedVolume(log) ==
  IF log = <<>> THEN 0
  ELSE PumpedVolume(SubSeq(log, 1, Len(log) - 1)) + log[Len(log)][2] * SecondsPerHour

\* C10: objective_function accumulates the cost sum(power * price of the
\* hour) and the volume V = sum(flow * 3600); an hour with the zero result
\* leaves both as they were; the value returned after the 24 hours is the
\* cost when V >= target and the cost plus a penalty proportional to
\* (target - V) when V < target, so never below the cost.
C10_ScheduleObjective ==
  /\ ev.pc \in {"running", "returned"} =>
       /\ ev.total_cost = EnergyCost(ev.log)
       /\ ev.total_volume_m3 = PumpedVolume(ev.log)
       /\ \A h \in 1..Len(ev.log) :
            ev.log[h] = <<0, 0>> =>
              ev.totals[h] = (IF h = 1 THEN <<0, 0>> ELSE ev.totals[h - 1])
  /\ ev.pc = "returned" =>
       LET V == PumpedVolume(ev.log)
           T == GlobalsOf(ev.proc).TARGET_VOLUME
       IN  /\ Len(ev.log) = HoursPerDay
           /\ V >= T => ev.ret = EnergyCost(ev.log)
           /\ V < T => ev.ret = EnergyCost(ev.log) + PenaltyPerUnit * (T - V)
           /\ ev.ret >= EnergyCost(ev.log)

\* an evaluation short of the target, with pumping hours and idle hours
C10_Witness ==
  /\ ev.pc = "returned"
  /\ ev.total_cost > 0
  /\ ev.total_volume_m3 < GlobalsOf(ev.proc).TARGET_VOLUME
  /\ ev.ret > ev.total_cost
  /\ \E h \in 1..HoursPerDay : ev.log[h] = <<0, 0>>
  /\ \E h \in 1..HoursPerDay : ev.log[h][1] > 0 /\ ev.log[h][2] > 0

====
